---- MODULE Spec2Model ----
(***************************************************************************)
(* A model of kudu::PartitionPruner (src/kudu/common/partition_pruner.cc). *)
(*                                                                         *)
(* Encoded keys are sequences of components.  Every field of a partition   *)
(* key in this model is a fixed-width big-endian unsigned field (a 4-byte  *)
(* hash bucket or an order-preserving integer column), so one field is one *)
(* component and memcmp order is the lexicographic order on sequences, a   *)
(* proper prefix comparing smaller.                                        *)
(***************************************************************************)
EXTENDS Integers, Sequences, FiniteSets, TLC

\* ------------------------------------------------------------------ bounds
\* Largest value of a key column; the column type is 0..MaxVal, 0 is its
\* minimum value and MaxVal its maximum (incrementing MaxVal overflows).
MaxVal == 2

\* Longest encoded key handed to RemovePartitionKeyRange by the caller.
MaxKeyLen == 2

\* ------------------------------------------------------------ encoded keys
Empty == <<>>

\* An absent key (a null EncodedKey pointer, no key returned yet); it is not
\* an encoded key, no component being negative.
NoKey == <<-1>>

\* An absent column value (a null raw_lower() or raw_upper()).
NoValue == -1

\* Lexicographic comparison from component i on.
RECURSIVE LessFrom(_, _, _)
LessFrom(x, y, i) ==
  IF i > Len(y) THEN FALSE
  ELSE IF i > Len(x) THEN TRUE
  ELSE IF x[i] = y[i] THEN LessFrom(x, y, i + 1)
  ELSE x[i] < y[i]

\* std::string operator< : unsigned lexicographic order.
KeyLess(x, y) == LessFrom(x, y, 1)

KeyLeq(x, y) == x = y \/ KeyLess(x, y)

\* Components of caller-supplied keys: bucket indexes and column values.
Comps == 0..MaxVal

RECURSIVE SeqsUpTo(_, _)
SeqsUpTo(S, n) ==
  IF n = 0 THEN {Empty}
  ELSE LET shorter == SeqsUpTo(S, n - 1)
       IN shorter \cup {Append(s, c) : s \in shorter, c \in S}

Keys == SeqsUpTo(Comps, MaxKeyLen)

\* ------------------------------------------------------------ the cursor
\* struct PartitionKeyRange { start; end }, struct RangeBounds { lower; upper }
PartitionKeyRange(s, e) == [start |-> s, end |-> e]
RangeBounds(l, u) == [lower |-> l, upper |-> u]
RangeBoundsAndPartitionKeyRanges(rb, rs) ==
  [range_bounds |-> rb, partition_key_ranges |-> rs]

PopBack(v) == SubSeq(v, 1, Len(v) - 1)

\* Reverse that keeps the order: the ranges are stored as constructed.
ReverseSame(v) == v

RECURSIVE Reverse(_)
Reverse(v) == IF v = <<>> THEN <<>> ELSE Reverse(Tail(v)) \o <<Head(v)>>

\* size_t NumRangesRemaining() const
RECURSIVE SumRanges(_, _)
SumRanges(c, i) ==
  IF i > Len(c) THEN 0
  ELSE Len(c[i].partition_key_ranges) + SumRanges(c, i + 1)

NumRangesRemaining(c) == SumRanges(c, 1)

\* bool HasMorePartitionKeyRanges() const
HasMorePartitionKeyRanges(c) == NumRangesRemaining(c) # 0

\* RemoveLoop with an 'if' in place of the 'for': one range is looked at.
RemoveLoopOnce(v, p, upper_bound) ==
  IF p < 1 THEN v
  ELSE IF KeyLeq(upper_bound, v[p].start) THEN v
  ELSE IF v[p].end = Empty \/ KeyLess(upper_bound, v[p].end)
       THEN [v EXCEPT ![p].start = upper_bound]
       ELSE PopBack(v)

\* RemoveLoop without the test 'upper_bound <= start' that ends the loop.
RECURSIVE RemoveLoopNoBreak(_, _, _)
RemoveLoopNoBreak(v, p, upper_bound) ==
  IF p < 1 THEN v
  ELSE IF v[p].end = Empty \/ KeyLess(upper_bound, v[p].end)
       THEN RemoveLoopNoBreak([v EXCEPT ![p].start = upper_bound], p - 1, upper_bound)
       ELSE RemoveLoopNoBreak(PopBack(v), p - 1, upper_bound)

\* The inner loop of RemovePartitionKeyRange over one bucket's vector v.
\* p is the element the reverse iterator designates (v[p]); pop_back always
\* removes the last element of the vector, whatever p is.
RECURSIVE RemoveLoop(_, _, _)
RemoveLoop(v, p, upper_bound) ==
  IF p < 1 THEN v
  ELSE IF KeyLeq(upper_bound, v[p].start) THEN v
  ELSE IF v[p].end = Empty \/ KeyLess(upper_bound, v[p].end)
       THEN RemoveLoop([v EXCEPT ![p].start = upper_bound], p - 1, upper_bound)
       ELSE RemoveLoop(PopBack(v), p - 1, upper_bound)

\* RemoveFromBuckets that trims the last bucket only.
RemoveFromBucketsLast(c, upper_bound) ==
  IF c = <<>> THEN <<>>
  ELSE PopBack(c)
       \o <<RangeBoundsAndPartitionKeyRanges(
              c[Len(c)].range_bounds,
              RemoveLoop(c[Len(c)].partition_key_ranges,
                         Len(c[Len(c)].partition_key_ranges), upper_bound))>>

\* void RemovePartitionKeyRange(const string& upper_bound), as a function
\* from the cursor before the call to the cursor after it.
RECURSIVE RemoveFromBuckets(_, _)
RemoveFromBuckets(c, upper_bound) ==
  IF c = <<>> THEN <<>>
  ELSE <<RangeBoundsAndPartitionKeyRanges(
           Head(c).range_bounds,
           RemoveLoop(Head(c).partition_key_ranges,
                      Len(Head(c).partition_key_ranges), upper_bound))>>
       \o RemoveFromBuckets(Tail(c), upper_bound)

\* RemoveRanges without the clear() for an empty upper bound.
RemoveRangesNoClear(c, upper_bound) == RemoveFromBuckets(c, upper_bound)

RemoveRanges(c, upper_bound) ==
  IF upper_bound = Empty THEN <<>> ELSE RemoveFromBuckets(c, upper_bound)

\* ScanRangeBeforePartition with '<' in place of '<='.
ScanRangeStrictlyBeforePartition(scan_range, partition) ==
  /\ scan_range.end # Empty
  /\ KeyLess(scan_range.end, partition.partition_key_start)

\* The comparator handed to std::lower_bound: true if scan_range < partition.
ScanRangeBeforePartition(scan_range, partition) ==
  /\ scan_range.end # Empty
  /\ KeyLeq(scan_range.end, partition.partition_key_start)

\* std::lower_bound over [rbegin, rend), the halving search of the standard
\* library: r is the vector in reverse order, first and len delimit the part
\* still searched; the result is an index of r, Len(r) + 1 standing for rend.
RECURSIVE LowerBound(_, _, _, _)
LowerBound(r, first, len, partition) ==
  IF len <= 0 THEN first
  ELSE LET half == len \div 2
           middle == first + half
       IN IF ScanRangeBeforePartition(r[middle], partition)
          THEN LowerBound(r, middle + 1, len - half - 1, partition)
          ELSE LowerBound(r, first, half, partition)

\* The range-bounds test at the head of the loop of ShouldPrune: the bucket
\* is passed over (continue) when this holds.
BucketSkipped(range_bounds, partition) ==
  /\ range_bounds.lower # Empty
  /\ partition.range_key_start # range_bounds.lower
  /\ range_bounds.upper # Empty
  /\ partition.range_key_end # range_bounds.upper

\* RangesKeepPartition without the test of the partition's end against the
\* start of the range found.
RangesKeepPartitionAny(partition_key_range, partition) ==
  LET r == Reverse(partition_key_range)
  IN LowerBound(r, 1, Len(r), partition) # Len(r) + 1

\* The rest of the loop body of ShouldPrune: TRUE when the body reaches
\* 'return false' for this bucket's ranges.
RangesKeepPartition(partition_key_range, partition) ==
  LET r == Reverse(partition_key_range)
      range == LowerBound(r, 1, Len(r), partition)
  IN ~(\/ range = Len(r) + 1
       \/ /\ partition.partition_key_end # Empty
          /\ KeyLeq(partition.partition_key_end, r[range].start))

BucketKeepsPartition(bucket, partition) ==
  /\ ~BucketSkipped(bucket.range_bounds, partition)
  /\ RangesKeepPartition(bucket.partition_key_ranges, partition)

\* bool ShouldPrune(const Partition& partition) const
ShouldPrune(c, partition) ==
  \A i \in 1..Len(c) : ~BucketKeepsPartition(c[i], partition)

\* ------------------------------------------------- schema and scan spec
\* Schema: the key columns a, b, c (PRIMARY KEY (a, b, c)), designated by
\* their index 1..3; a row is the tuple of its key column values.
NumKeyColumns == 3
Values == 0..MaxVal
Rows == [1..NumKeyColumns -> Values]

\* ColumnPredicate, by predicate_type(); NoPredicate stands for a column
\* that has no entry in ScanSpec::predicates().
NoPredicate == [type |-> "Absent", lower |-> NoValue, upper |-> NoValue, values |-> {}]
Equality(v) == [type |-> "Equality", lower |-> v, upper |-> NoValue, values |-> {}]
InList(vs) == [type |-> "InList", lower |-> NoValue, upper |-> NoValue, values |-> vs]
Range(lo, hi) == [type |-> "Range", lower |-> lo, upper |-> hi, values |-> {}]
IsNotNull == [type |-> "IsNotNull", lower |-> NoValue, upper |-> NoValue, values |-> {}]

\* PartitionSchema::HashDimension
HashDimension(cols, n, seed) == [column_ids |-> cols, num_buckets |-> n, seed |-> seed]

RECURSIVE SumSeq(_, _)
SumSeq(s, i) == IF i > Len(s) THEN 0 ELSE s[i] + SumSeq(s, i + 1)

\* PartitionSchema::HashValueForEncodedColumns: the bucket of an encoded
\* tuple of column values.  hash(0) = 0 and hash(2) = 2 as in the table of
\* Init's comment.
HashValueForEncodedColumns(encoded_string, hash_dimension) ==
  (SumSeq(encoded_string, 1) + hash_dimension.seed) % hash_dimension.num_buckets

\* The predicate_values vector built by PruneHashComponent for one column.
PredicateValues(predicate) ==
  IF predicate.type = "Equality" THEN {predicate.lower} ELSE predicate.values

\* The encoded_strings of PruneHashComponent after the columns
\* 1..col_offset of the dimension have been appended.
RECURSIVE EncodedStrings(_, _, _)
EncodedStrings(hash_dimension, predicates, col_offset) ==
  IF col_offset = 0 THEN {Empty}
  ELSE {Append(encoded_string, predicate_value) :
          encoded_string \in EncodedStrings(hash_dimension, predicates, col_offset - 1),
          predicate_value \in PredicateValues(predicates[hash_dimension.column_ids[col_offset]])}

\* vector<bool> PruneHashComponent(hash_dimension, schema, scan_spec); the
\* bitset is a function on 0..num_buckets-1.
PruneHashComponent(hash_dimension, predicates) ==
  LET encoded_strings ==
        EncodedStrings(hash_dimension, predicates, Len(hash_dimension.column_ids))
  IN [bucket \in 0..(hash_dimension.num_buckets - 1) |->
        \E encoded_string \in encoded_strings :
           HashValueForEncodedColumns(encoded_string, hash_dimension) = bucket]

\* CanPrune that is satisfied by one Equality or InList column.
CanPruneAny(hash_dimension, predicates) ==
  \E k \in 1..Len(hash_dimension.column_ids) :
     predicates[hash_dimension.column_ids[k]].type \in {"Equality", "InList"}

\* The can_prune flag of ConstructPartitionKeyRanges for one dimension.
CanPrune(hash_dimension, predicates) ==
  \A k \in 1..Len(hash_dimension.column_ids) :
     predicates[hash_dimension.column_ids[k]].type \in {"Equality", "InList"}

\* hash_bucket_bitsets of ConstructPartitionKeyRanges.
HashBucketBitsets(hash_schema, predicates) ==
  [i \in 1..Len(hash_schema) |->
     IF CanPrune(hash_schema[i], predicates)
     THEN PruneHashComponent(hash_schema[i], predicates)
     ELSE [bucket \in 0..(hash_schema[i].num_buckets - 1) |-> TRUE]]

HasClearedBit(bitset) == \E bucket \in DOMAIN bitset : ~bitset[bucket]

\* ConstrainedIndex that searches the bitsets from left to right and stops
\* at the first constrained component.
ConstrainedIndexFirst(hash_bucket_bitsets, range_bounds) ==
  IF range_bounds.lower # Empty \/ range_bounds.upper # Empty
  THEN Len(hash_bucket_bitsets)
  ELSE LET constrained == {i \in 1..Len(hash_bucket_bitsets) :
                             HasClearedBit(hash_bucket_bitsets[i])}
       IN IF constrained = {} THEN 0
          ELSE CHOOSE i \in constrained : \A j \in constrained : i <= j

\* ConstrainedIndex without the search for the last constrained component.
ConstrainedIndexAll(hash_bucket_bitsets, range_bounds) == Len(hash_bucket_bitsets)

\* constrained_index of ConstructPartitionKeyRanges.
ConstrainedIndex(hash_bucket_bitsets, range_bounds) ==
  IF range_bounds.lower # Empty \/ range_bounds.upper # Empty
  THEN Len(hash_bucket_bitsets)
  ELSE LET constrained == {i \in 1..Len(hash_bucket_bitsets) :
                             HasClearedBit(hash_bucket_bitsets[i])}
       IN IF constrained = {} THEN 0
          ELSE CHOOSE i \in constrained : \A j \in constrained : j <= i

\* BucketUpper without the increment of the final component.
BucketUpperSame(bucket, is_last) == bucket

\* bucket_upper of the cross-product loop.
BucketUpper(bucket, is_last) == IF is_last THEN bucket + 1 ELSE bucket

\* The ranges one partition_key_range contributes for the buckets
\* bucket..num_buckets-1 of one hash component.
RECURSIVE AppendBuckets(_, _, _, _)
AppendBuckets(partition_key_range, buckets_bitset, is_last, bucket) ==
  IF bucket \notin DOMAIN buckets_bitset THEN <<>>
  ELSE LET rest == AppendBuckets(partition_key_range, buckets_bitset, is_last, bucket + 1)
       IN IF ~buckets_bitset[bucket] THEN rest
          ELSE <<PartitionKeyRange(
                    Append(partition_key_range.start, bucket),
                    Append(partition_key_range.end, BucketUpper(bucket, is_last)))>>
               \o rest

\* new_partition_key_ranges for the ranges k..Len(partition_key_ranges).
RECURSIVE NewPartitionKeyRanges(_, _, _, _)
NewPartitionKeyRanges(partition_key_ranges, buckets_bitset, is_last, k) ==
  IF k > Len(partition_key_ranges) THEN <<>>
  ELSE AppendBuckets(partition_key_ranges[k], buckets_bitset, is_last, 0)
       \o NewPartitionKeyRanges(partition_key_ranges, buckets_bitset, is_last, k + 1)

\* HashLoop whose is_last leaves out the test that the range upper bound is
\* empty: the final bucket is incremented although a range bound follows.
RECURSIVE HashLoopIncrement(_, _, _, _, _)
HashLoopIncrement(partition_key_ranges, hash_bucket_bitsets, constrained_index, range_bounds, hash_idx) ==
  IF hash_idx > constrained_index THEN partition_key_ranges
  ELSE LET is_last == hash_idx = constrained_index
       IN HashLoopIncrement(NewPartitionKeyRanges(partition_key_ranges,
                                                  hash_bucket_bitsets[hash_idx], is_last, 1),
                            hash_bucket_bitsets, constrained_index, range_bounds, hash_idx + 1)

\* HashLoop that runs over every hash dimension, not up to constrained_index.
RECURSIVE HashLoopAll(_, _, _, _, _)
HashLoopAll(partition_key_ranges, hash_bucket_bitsets, constrained_index, range_bounds, hash_idx) ==
  IF hash_idx > Len(hash_bucket_bitsets) THEN partition_key_ranges
  ELSE LET is_last == hash_idx = constrained_index /\ range_bounds.upper = Empty
       IN HashLoopAll(NewPartitionKeyRanges(partition_key_ranges,
                                            hash_bucket_bitsets[hash_idx], is_last, 1),
                      hash_bucket_bitsets, constrained_index, range_bounds, hash_idx + 1)

\* The loop over hash_idx, from hash_idx on (1-based).
RECURSIVE HashLoop(_, _, _, _, _)
HashLoop(partition_key_ranges, hash_bucket_bitsets, constrained_index, range_bounds, hash_idx) ==
  IF hash_idx > constrained_index THEN partition_key_ranges
  ELSE LET is_last == hash_idx = constrained_index /\ range_bounds.upper = Empty
       IN HashLoop(NewPartitionKeyRanges(partition_key_ranges,
                                         hash_bucket_bitsets[hash_idx], is_last, 1),
                   hash_bucket_bitsets, constrained_index, range_bounds, hash_idx + 1)

\* "Append the (possibly empty) range bounds to the partition key ranges."
RECURSIVE AppendRangeBounds(_, _)
AppendRangeBounds(partition_key_ranges, range_bounds) ==
  IF partition_key_ranges = <<>> THEN <<>>
  ELSE <<PartitionKeyRange(Head(partition_key_ranges).start \o range_bounds.lower,
                           Head(partition_key_ranges).end \o range_bounds.upper)>>
       \o AppendRangeBounds(Tail(partition_key_ranges), range_bounds)

\* TrimLoop that sets the end of every range it does not stop at, without
\* the test that pops the ranges past the upper bound.
RECURSIVE TrimLoopNoPop(_, _, _)
TrimLoopNoPop(v, p, upper) ==
  IF p < 1 THEN v
  ELSE IF v[p].end # Empty /\ KeyLeq(v[p].end, upper) THEN v
  ELSE TrimLoopNoPop([v EXCEPT ![p].end = upper], p - 1, upper)

\* "Remove all partition key ranges past the scan spec's upper bound
\* partition key": the loop over the reverse iterator, p as in RemoveLoop.
RECURSIVE TrimLoop(_, _, _)
TrimLoop(v, p, upper) ==
  IF p < 1 THEN v
  ELSE IF v[p].end # Empty /\ KeyLeq(v[p].end, upper) THEN v
  ELSE IF KeyLeq(upper, v[p].start)
       THEN TrimLoop(PopBack(v), p - 1, upper)
       ELSE TrimLoop([v EXCEPT ![p].end = upper], p - 1, upper)

\* The ranges of ConstructPartitionKeyRanges before the trim by the scan's
\* exclusive upper bound partition key.
UntrimmedPartitionKeyRanges(scan_spec, hash_schema, range_bounds) ==
  LET hash_bucket_bitsets == HashBucketBitsets(hash_schema, scan_spec.predicates)
      constrained_index == ConstrainedIndex(hash_bucket_bitsets, range_bounds)
  IN AppendRangeBounds(
       HashLoop(<<PartitionKeyRange(Empty, Empty)>>, hash_bucket_bitsets,
                constrained_index, range_bounds, 1),
       range_bounds)

\* vector<PartitionKeyRange> ConstructPartitionKeyRanges(schema, scan_spec,
\*                                                      hash_schema, range_bounds)
ConstructPartitionKeyRanges(scan_spec, hash_schema, range_bounds) ==
  LET partition_key_ranges ==
        UntrimmedPartitionKeyRanges(scan_spec, hash_schema, range_bounds)
  IN IF scan_spec.exclusive_upper_bound_partition_key # Empty
     THEN TrimLoop(partition_key_ranges, Len(partition_key_ranges),
                   scan_spec.exclusive_upper_bound_partition_key)
     ELSE partition_key_ranges

\* ---------------------------------------------------- range-key derivation
\* bool AreRangeColumnsPrefixOfPrimaryKey(schema, range_columns)
AreRangeColumnsPrefixOfPrimaryKey(range_columns) ==
  \A col_idx \in 1..Len(range_columns) : range_columns[col_idx] = col_idx

\* key_util::EncodeKey(col_idxs, row, &buf): the composite encoding of the
\* columns col_idxs of row.
RECURSIVE EncodeKey(_, _)
EncodeKey(col_idxs, row) ==
  IF col_idxs = <<>> THEN <<>>
  ELSE <<row[Head(col_idxs)]>> \o EncodeKey(Tail(col_idxs), row)

\* key_util::IncrementPrimaryKey(&row, prefix_len): the lexicographic
\* successor of the first prefix_len columns; NoKey when it overflows.
RECURSIVE IncrementKey(_, _)
IncrementKey(row, prefix_len) ==
  IF prefix_len = 0 THEN NoKey
  ELSE IF row[prefix_len] < MaxVal
       THEN [row EXCEPT ![prefix_len] = @ + 1]
       ELSE IncrementKey([row EXCEPT ![prefix_len] = 0], prefix_len - 1)

\* EncodeRangeKeysFromPrimaryKeyBounds that copies the range prefix of
\* both primary key bounds verbatim.
EncodeRangeKeysFromPrimaryKeyBoundsVerbatim(scan_spec, num_range_columns) ==
  LET col_idxs == SubSeq(<<1, 2, 3>>, 1, num_range_columns)
  IN RangeBounds(IF scan_spec.lower_bound_key # NoKey
                 THEN EncodeKey(col_idxs, scan_spec.lower_bound_key) ELSE Empty,
                 IF scan_spec.exclusive_upper_bound_key # NoKey
                 THEN EncodeKey(col_idxs, scan_spec.exclusive_upper_bound_key)
                 ELSE Empty)

\* void EncodeRangeKeysFromPrimaryKeyBounds(schema, scan_spec,
\*   num_range_columns, &range_key_start, &range_key_end), as the pair of
\* strings it leaves (both start out empty).
EncodeRangeKeysFromPrimaryKeyBounds(scan_spec, num_range_columns) ==
  LET lower_bound_key == scan_spec.lower_bound_key
      exclusive_upper_bound_key == scan_spec.exclusive_upper_bound_key
      col_idxs == SubSeq(<<1, 2, 3>>, 1, num_range_columns)
      min_suffix == \A idx \in (num_range_columns + 1)..NumKeyColumns :
                       exclusive_upper_bound_key[idx] = 0
      incremented == IncrementKey(exclusive_upper_bound_key, num_range_columns)
  IN IF lower_bound_key = NoKey /\ exclusive_upper_bound_key = NoKey
     THEN RangeBounds(Empty, Empty)
     ELSE IF num_range_columns = NumKeyColumns
     THEN RangeBounds(IF lower_bound_key # NoKey THEN lower_bound_key ELSE Empty,
                      IF exclusive_upper_bound_key # NoKey
                      THEN exclusive_upper_bound_key ELSE Empty)
     ELSE RangeBounds(
            IF lower_bound_key # NoKey
            THEN EncodeKey(col_idxs, lower_bound_key) ELSE Empty,
            IF exclusive_upper_bound_key = NoKey THEN Empty
            ELSE IF min_suffix THEN EncodeKey(col_idxs, exclusive_upper_bound_key)
            ELSE IF incremented = NoKey THEN Empty
            ELSE EncodeKey(col_idxs, incremented))

SetMin(S) == CHOOSE v \in S : \A w \in S : v <= w
SetMax(S) == CHOOSE v \in S : \A w \in S : w <= v

\* The lower value a predicate pushes into a key, NoValue if it has none.
LowerBoundOf(predicate) ==
  CASE predicate.type = "Equality" -> predicate.lower
    [] predicate.type = "InList" -> SetMin(predicate.values)
    [] predicate.type = "Range" -> predicate.lower
    [] OTHER -> NoValue

\* The upper value a predicate pushes into a key, NoValue if it has none.
UpperBoundOf(predicate) ==
  CASE predicate.type = "Equality" -> predicate.lower
    [] predicate.type = "InList" -> SetMax(predicate.values)
    [] predicate.type = "Range" -> predicate.upper
    [] OTHER -> NoValue

\* The number of leading columns of col_idxs that have a lower value.
RECURSIVE PushedLower(_, _, _)
PushedLower(col_idxs, predicates, k) ==
  IF k > Len(col_idxs) THEN 0
  ELSE IF LowerBoundOf(predicates[col_idxs[k]]) = NoValue THEN 0
  ELSE 1 + PushedLower(col_idxs, predicates, k + 1)

\* The number of leading columns of col_idxs that have an upper value.
RECURSIVE PushedUpper(_, _, _)
PushedUpper(col_idxs, predicates, k) ==
  IF k > Len(col_idxs) THEN 0
  ELSE IF UpperBoundOf(predicates[col_idxs[k]]) = NoValue THEN 0
  ELSE 1 + PushedUpper(col_idxs, predicates, k + 1)

\* The row of a push: the first pushed columns of col_idxs hold the values
\* of the lower (is_lower) or upper predicates, the others the minimum value.
RECURSIVE PushedRow(_, _, _, _, _)
PushedRow(col_idxs, predicates, pushed, is_lower, k) ==
  IF k > Len(col_idxs) THEN <<>>
  ELSE <<IF k > pushed THEN 0
         ELSE IF is_lower THEN LowerBoundOf(predicates[col_idxs[k]])
         ELSE UpperBoundOf(predicates[col_idxs[k]])>>
       \o PushedRow(col_idxs, predicates, pushed, is_lower, k + 1)

\* key_util::PushLowerBoundKeyPredicates(col_idxs, predicates, &row, arena)
\* followed by EncodeKey: the encoded lower range key, Empty when no column
\* was pushed.
PushLowerBoundKeyPredicates(col_idxs, predicates) ==
  IF PushedLower(col_idxs, predicates, 1) = 0 THEN Empty
  ELSE PushedRow(col_idxs, predicates, PushedLower(col_idxs, predicates, 1), TRUE, 1)

\* key_util::PushUpperBoundKeyPredicates(col_idxs, predicates, &row, arena)
\* followed by EncodeKey: the encoded exclusive upper range key.  An upper
\* value that comes from an Equality or InList predicate is inclusive and is
\* incremented; Empty when no column was pushed or the increment overflows.
PushUpperBoundKeyPredicates(col_idxs, predicates) ==
  LET pushed_upper == PushedUpper(col_idxs, predicates, 1)
      upper_row == PushedRow(col_idxs, predicates, pushed_upper, FALSE, 1)
      inclusive == predicates[col_idxs[pushed_upper]].type \in {"Equality", "InList"}
      incremented_row == IncrementKey(upper_row, pushed_upper)
  IN IF pushed_upper = 0 THEN Empty
     ELSE IF ~inclusive THEN upper_row
     ELSE IF incremented_row = NoKey THEN Empty
     ELSE incremented_row

\* void EncodeRangeKeysFromPredicates(schema, predicates, range_columns,
\*                                    &range_key_start, &range_key_end)
EncodeRangeKeysFromPredicates(predicates, range_columns) ==
  RangeBounds(PushLowerBoundKeyPredicates(range_columns, predicates),
              PushUpperBoundKeyPredicates(range_columns, predicates))

\* scan_range_lower_bound and scan_range_upper_bound of Init.
ScanRangeBounds(partition_schema, scan_spec) ==
  LET range_columns == partition_schema.range_schema
  IN IF range_columns = <<>> THEN RangeBounds(Empty, Empty)
     ELSE IF AreRangeColumnsPrefixOfPrimaryKey(range_columns)
     THEN EncodeRangeKeysFromPrimaryKeyBounds(scan_spec, Len(range_columns))
     ELSE EncodeRangeKeysFromPredicates(scan_spec.predicates, range_columns)

\* SegmentIncluded with <= and >= in place of < and >: the bounds are
\* compared as if both intervals were closed.
SegmentIncludedClosed(range, scan) ==
  IF scan.lower = Empty /\ scan.upper = Empty THEN TRUE
  ELSE IF scan.lower = Empty THEN KeyLeq(range.lower, scan.upper)
  ELSE IF scan.upper = Empty
       THEN range.upper = Empty \/ KeyLeq(scan.lower, range.upper)
  ELSE /\ range.upper = Empty \/ KeyLeq(scan.lower, range.upper)
       /\ KeyLeq(range.lower, scan.upper)

\* ------------------------------------------------------------------- Init
\* The test of Init's first loop: the range segment [range.lower,
\* range.upper) is stored for the scan bounds [lower, upper).
SegmentIncluded(range, scan) ==
  IF scan.lower = Empty /\ scan.upper = Empty THEN TRUE
  ELSE IF scan.lower = Empty THEN KeyLess(range.lower, scan.upper)
  ELSE IF scan.upper = Empty
       THEN range.upper = Empty \/ KeyLess(scan.lower, range.upper)
  ELSE /\ range.upper = Empty \/ KeyLess(scan.lower, range.upper)
       /\ KeyLess(range.lower, scan.upper)

\* SelectSeq with a predicate on the element.
RECURSIVE IncludedSegments(_, _, _)
IncludedSegments(ranges_with_hash_schemas, scan, k) ==
  IF k > Len(ranges_with_hash_schemas) THEN <<>>
  ELSE (IF SegmentIncluded(ranges_with_hash_schemas[k], scan)
        THEN <<ranges_with_hash_schemas[k]>> ELSE <<>>)
       \o IncludedSegments(ranges_with_hash_schemas, scan, k + 1)

\* The bounds handed to ConstructPartitionKeyRanges for an included segment.
SegmentBounds(range, scan) ==
  IF scan.lower = Empty /\ scan.upper = Empty
  THEN RangeBounds(range.lower, range.upper)
  ELSE RangeBounds(scan.lower, scan.upper)

\* Init's second loop: one RangeBoundsAndPartitionKeyRanges per stored
\* segment, its ranges in reverse order.
RECURSIVE SegmentRanges(_, _, _)
SegmentRanges(included, scan, scan_spec) ==
  IF included = <<>> THEN <<>>
  ELSE <<RangeBoundsAndPartitionKeyRanges(
           RangeBounds(Head(included).lower, Head(included).upper),
           Reverse(ConstructPartitionKeyRanges(
                     scan_spec, Head(included).hash_schema,
                     SegmentBounds(Head(included), scan))))>>
       \o SegmentRanges(Tail(included), scan, scan_spec)

\* range_bounds_to_partition_key_ranges_ as Init builds it, before the final
\* RemovePartitionKeyRange(lower_bound_partition_key).
BuildRanges(partition_schema, scan_spec) ==
  LET scan == ScanRangeBounds(partition_schema, scan_spec)
  IN IF partition_schema.ranges_with_hash_schemas = <<>>
     THEN <<RangeBoundsAndPartitionKeyRanges(
              RangeBounds(Empty, Empty),
              Reverse(ConstructPartitionKeyRanges(
                        scan_spec, partition_schema.hash_schema, scan)))>>
     ELSE SegmentRanges(
            IncludedSegments(partition_schema.ranges_with_hash_schemas, scan, 1),
            scan, scan_spec)

\* InitRanges without the early return for a short-circuit scan.
InitRangesAlways(partition_schema, scan_spec) ==
  LET built == BuildRanges(partition_schema, scan_spec)
  IN IF scan_spec.lower_bound_partition_key # Empty
     THEN RemoveRanges(built, scan_spec.lower_bound_partition_key)
     ELSE built

\* void Init(schema, partition_schema, scan_spec): the cursor it leaves in a
\* freshly constructed pruner.
InitRanges(partition_schema, scan_spec) ==
  IF scan_spec.short_circuit THEN <<>>
  ELSE LET built == BuildRanges(partition_schema, scan_spec)
       IN IF scan_spec.lower_bound_partition_key # Empty
          THEN RemoveRanges(built, scan_spec.lower_bound_partition_key)
          ELSE built

\* ----------------------------------------------------- the tablet catalog
\* A range partition of the table with the hash schema of its tablets.
RangeWithHashSchema(l, u, hs) == [lower |-> l, upper |-> u, hash_schema |-> hs]

\* The hash bucket tuples of a hash schema.
RECURSIVE BucketTuples(_, _)
BucketTuples(hash_schema, n) ==
  IF n = 0 THEN {Empty}
  ELSE {Append(t, bucket) : t \in BucketTuples(hash_schema, n - 1),
                            bucket \in 0..(hash_schema[n].num_buckets - 1)}

\* The start key of the first range partition: trailing zero buckets are
\* cleared so that the tablets leave no hole below them.
RECURSIVE ClearedStart(_)
ClearedStart(hash_buckets) ==
  IF hash_buckets = <<>> THEN Empty
  ELSE IF hash_buckets[Len(hash_buckets)] # 0 THEN hash_buckets
  ELSE ClearedStart(PopBack(hash_buckets))

\* The end key of the last range partition: the last bucket is incremented,
\* with carry into the earlier components, Empty when every bucket is the
\* last one.
RECURSIVE ClearedEnd(_, _)
ClearedEnd(hash_buckets, hash_schema) ==
  IF hash_buckets = <<>> THEN Empty
  ELSE LET i == Len(hash_buckets)
       IN IF hash_buckets[i] + 1 # hash_schema[i].num_buckets
          THEN Append(PopBack(hash_buckets), hash_buckets[i] + 1)
          ELSE ClearedEnd(PopBack(hash_buckets), hash_schema)

\* class Partition, for the tablet of range partition range and hash
\* buckets hash_buckets.
Partition(range, hash_buckets) ==
  [hash_buckets |-> hash_buckets,
   range_key_start |-> range.lower,
   range_key_end |-> range.upper,
   partition_key_start |->
     IF range.lower = Empty THEN ClearedStart(hash_buckets)
     ELSE hash_buckets \o range.lower,
   partition_key_end |->
     IF range.upper = Empty THEN ClearedEnd(hash_buckets, range.hash_schema)
     ELSE hash_buckets \o range.upper]

\* The tablets of a table whose range partitions are ranges.
Tablets(ranges) ==
  UNION {{Partition(ranges[k], t) :
            t \in BucketTuples(ranges[k].hash_schema, Len(ranges[k].hash_schema))} :
         k \in 1..Len(ranges)}

\* The hash buckets of a row under a hash schema.
RECURSIVE HashBucketsOf(_, _)
HashBucketsOf(row, hash_schema) ==
  IF hash_schema = <<>> THEN <<>>
  ELSE <<HashValueForEncodedColumns(EncodeKey(Head(hash_schema).column_ids, row),
                                    Head(hash_schema))>>
       \o HashBucketsOf(row, Tail(hash_schema))

\* The range partition [lower, upper) holds the range key.
InRange(range_key, range) ==
  /\ range.lower = Empty \/ KeyLeq(range.lower, range_key)
  /\ range.upper = Empty \/ KeyLess(range_key, range.upper)

\* The tablets that hold a row (at most one; none if the row's range key
\* lies in no range partition of the table).
TabletsOf(row, range_schema, ranges) ==
  {Partition(ranges[k], HashBucketsOf(row, ranges[k].hash_schema)) :
     k \in {j \in 1..Len(ranges) : InRange(EncodeKey(range_schema, row), ranges[j])}}

\* -------------------------------------------------------- rows and scans
\* ColumnPredicate::EvaluateCell
Satisfies(v, predicate) ==
  CASE predicate.type = "Equality" -> v = predicate.lower
    [] predicate.type = "InList" -> v \in predicate.values
    [] predicate.type = "Range" ->
         /\ predicate.lower = NoValue \/ predicate.lower <= v
         /\ predicate.upper = NoValue \/ v < predicate.upper
    [] OTHER -> TRUE

\* The row satisfies the column predicates and the primary key bounds.
RowMatches(row, scan_spec) ==
  /\ \A col \in 1..NumKeyColumns : Satisfies(row[col], scan_spec.predicates[col])
  /\ scan_spec.lower_bound_key = NoKey \/ KeyLeq(scan_spec.lower_bound_key, row)
  /\ \/ scan_spec.exclusive_upper_bound_key = NoKey
     \/ KeyLess(row, scan_spec.exclusive_upper_bound_key)

\* ------------------------------------------------------------- the tables
HashA(n) == HashDimension(<<1>>, n, 0)
HashB(n) == HashDimension(<<2>>, n, 0)

PartitionSchema(hs, rs, segs) ==
  [hash_schema |-> hs, range_schema |-> rs, ranges_with_hash_schemas |-> segs]

RECURSIVE SplitRanges(_, _)
SplitRanges(splits, hash_schema) ==
  IF splits = <<>> THEN <<>>
  ELSE <<RangeWithHashSchema(Head(splits)[1], Head(splits)[2], hash_schema)>>
       \o SplitRanges(Tail(splits), hash_schema)

\* A table: its partition schema and its range partitions.  A table with
\* ranges_with_hash_schemas has exactly those range partitions; the range
\* partitions of the others carry the table-wide hash schema.
Table(ps, splits) ==
  [partition_schema |-> ps,
   ranges |-> IF ps.ranges_with_hash_schemas # <<>>
              THEN ps.ranges_with_hash_schemas
              ELSE SplitRanges(splits, ps.hash_schema)]

\* CREATE TABLE t (a, b, c) PRIMARY KEY (a, b, c) DISTRIBUTE BY RANGE (c)
\* HASH (a) INTO 2 BUCKETS HASH (b) INTO 3 BUCKETS, the table of Init's comment.
TableScenario ==
  Table(PartitionSchema(<<HashA(2), HashB(3)>>, <<3>>, <<>>),
        <<<<Empty, <<1>>>>, <<<<1>>, Empty>>>>)

\* HASH (a, b) INTO 3 BUCKETS with a seed, no range partitioning.
TableHashOnly ==
  Table(PartitionSchema(<<HashDimension(<<1, 2>>, 3, 1)>>, <<>>, <<>>),
        <<<<Empty, Empty>>>>)

\* RANGE (a) HASH (b) INTO 2 BUCKETS: the range column is a prefix of the key.
TablePrefix ==
  Table(PartitionSchema(<<HashB(2)>>, <<1>>, <<>>),
        <<<<Empty, <<1>>>>, <<<<1>>, Empty>>>>)

\* RANGE (c) with two range segments of different hash schemas that cover
\* the range key space.
TableSegments ==
  Table(PartitionSchema(<<HashA(2)>>, <<3>>,
          <<RangeWithHashSchema(Empty, <<1>>, <<HashA(3)>>),
            RangeWithHashSchema(<<1>>, Empty, <<HashA(2)>>)>>), <<>>)

\* RANGE (c) with two bounded range segments.
TableBounded ==
  Table(PartitionSchema(<<HashA(2)>>, <<3>>,
          <<RangeWithHashSchema(<<0>>, <<1>>, <<HashA(2)>>),
            RangeWithHashSchema(<<1>>, <<2>>, <<HashA(3)>>)>>), <<>>)

\* RANGE (a) with three range segments, the range column a prefix of the key.
TablePrefixSegments ==
  Table(PartitionSchema(<<HashB(2)>>, <<1>>,
          <<RangeWithHashSchema(Empty, <<1>>, <<HashB(2)>>),
            RangeWithHashSchema(<<1>>, <<2>>, <<HashB(3)>>),
            RangeWithHashSchema(<<2>>, Empty, <<HashB(2)>>)>>), <<>>)

\* RANGE (a) with two range segments and no hash dimension.
TableRangeOnly ==
  Table(PartitionSchema(<<>>, <<1>>,
          <<RangeWithHashSchema(Empty, <<1>>, <<>>),
            RangeWithHashSchema(<<1>>, Empty, <<>>)>>), <<>>)

Tables == {TableScenario, TableHashOnly, TablePrefix, TableSegments,
           TableBounded, TablePrefixSegments, TableRangeOnly}

\* ------------------------------------------------------------- the scans
\* The predicates of the scans on a hash column that is column 1 (a) or
\* column 2 (b), on a range column, and the key bounds of the scans.
HashPredicatesA == {NoPredicate, Equality(0), InList({0, 1}), Range(1, NoValue)}

HashPredicatesB == {NoPredicate, Equality(2), InList({0, 1})}

RangePredicates == {NoPredicate, Equality(0), Equality(MaxVal), InList({0, 1}),
                    Range(1, NoValue), Range(NoValue, 2)}

LowerBoundKeys == {NoKey, <<0, 1, 0>>, <<1, 0, 0>>}

ExclusiveUpperBoundKeys == {NoKey, <<1, 0, 0>>, <<1, 1, 0>>, <<MaxVal, 0, 1>>}

LowerBoundPartitionKeys == {Empty, <<0, 1>>}

ExclusiveUpperBoundPartitionKeys == {Empty, <<1>>, <<1, 1>>}

\* The columns of the hash dimensions of a table, in any of its hash schemas.
HashColumns(table) ==
  LET schemas == {table.partition_schema.hash_schema}
                 \cup {table.ranges[k].hash_schema : k \in 1..Len(table.ranges)}
  IN UNION {UNION {{hs[i].column_ids[j] : j \in 1..Len(hs[i].column_ids)} :
                     i \in 1..Len(hs)} : hs \in schemas}

PrefixTable(table) ==
  AreRangeColumnsPrefixOfPrimaryKey(table.partition_schema.range_schema)

\* The predicates a scan of the table may carry on a column.
ColumnPredicates(table, col) ==
  IF col \in HashColumns(table)
  THEN (IF col = 1 THEN HashPredicatesA ELSE HashPredicatesB)
  ELSE IF /\ ~PrefixTable(table)
          /\ \E k \in 1..Len(table.partition_schema.range_schema) :
                table.partition_schema.range_schema[k] = col
       THEN RangePredicates
  ELSE {NoPredicate}

\* The optimized scan specs of a table: primary key bounds, when both are
\* set, have lower < upper (CanShortCircuit() is true otherwise).
ScanSpecs(table) ==
  {[short_circuit |-> sc,
    predicates |-> <<pa, pb, pc3>>,
    lower_bound_key |-> lk,
    exclusive_upper_bound_key |-> uk,
    lower_bound_partition_key |-> lpk,
    exclusive_upper_bound_partition_key |-> upk] :
     sc \in BOOLEAN,
     pa \in ColumnPredicates(table, 1),
     pb \in ColumnPredicates(table, 2),
     pc3 \in ColumnPredicates(table, 3),
     lk \in IF PrefixTable(table) /\ table.partition_schema.range_schema # <<>>
            THEN LowerBoundKeys ELSE {NoKey},
     uk \in IF PrefixTable(table) /\ table.partition_schema.range_schema # <<>>
            THEN ExclusiveUpperBoundKeys ELSE {NoKey},
     lpk \in LowerBoundPartitionKeys,
     upk \in ExclusiveUpperBoundPartitionKeys}

ValidScanSpec(spec) ==
  \/ spec.lower_bound_key = NoKey
  \/ spec.exclusive_upper_bound_key = NoKey
  \/ KeyLess(spec.lower_bound_key, spec.exclusive_upper_bound_key)

\* ------------------------------------------------------ the state machine
VARIABLES
  table,        \* the table scanned: partition schema and range partitions
  scan_spec,    \* the ScanSpec handed to Init
  pc,           \* "new", "ready" (after Init), "aborted" (a CHECK failed) or
                \* "crashed" (an undefined read killed the process)
  range_bounds_to_partition_key_ranges_,
  fresh,        \* TRUE from Init until the first RemovePartitionKeyRange
  cleared,      \* TRUE once RemovePartitionKeyRange("") has been called
  phase,        \* "got" after NextPartitionKey returned, "found" once the
                \* scanner has located the tablet of that key, else "idle"
  next_key,     \* the key NextPartitionKey returned last, NoKey if none
  visited       \* the tablets the scanner has located so far

vars == <<table, scan_spec, pc, range_bounds_to_partition_key_ranges_,
          fresh, cleared, phase, next_key, visited>>

\* A constructed pruner and the arguments its Init will receive.
Init ==
  /\ table \in Tables
  /\ scan_spec \in {spec \in ScanSpecs(table) : ValidScanSpec(spec)}
  /\ pc = "new"
  /\ range_bounds_to_partition_key_ranges_ = <<>>
  /\ fresh = FALSE
  /\ cleared = FALSE
  /\ phase = "idle"
  /\ next_key = NoKey
  /\ visited = {}

\* PartitionPruner::Init
PrunerInit ==
  /\ pc = "new"
  /\ pc' = "ready"
  /\ range_bounds_to_partition_key_ranges_' =
       InitRanges(table.partition_schema, scan_spec)
  /\ fresh' = TRUE
  /\ UNCHANGED <<table, scan_spec, cleared, phase, next_key, visited>>

\* PartitionPruner::RemovePartitionKeyRange
RemovePartitionKeyRange(upper_bound) ==
  /\ pc = "ready"
  /\ range_bounds_to_partition_key_ranges_' =
       RemoveRanges(range_bounds_to_partition_key_ranges_, upper_bound)
  /\ fresh' = FALSE
  /\ cleared' = (cleared \/ upper_bound = Empty)
  /\ phase' = "idle"
  /\ UNCHANGED <<table, scan_spec, pc, next_key, visited>>

Back(v) == v[Len(v)]

\* NextPartitionKey without its CHECK: the read happens whatever the cursor.
NextPartitionKeyUnchecked ==
  /\ pc = "ready"
  /\ LET c == range_bounds_to_partition_key_ranges_
     IN IF c # <<>> /\ Back(c).partition_key_ranges # <<>>
        THEN /\ next_key' = Back(Back(c).partition_key_ranges).start
             /\ phase' = "got"
             /\ pc' = pc
        ELSE \/ pc' = "crashed" /\ UNCHANGED <<phase, next_key>>
             \/ /\ next_key' \in Keys
                /\ phase' = "got"
                /\ pc' = pc
  /\ UNCHANGED <<table, scan_spec, range_bounds_to_partition_key_ranges_,
                 fresh, cleared, visited>>

\* PartitionPruner::NextPartitionKey.  CHECK(HasMorePartitionKeyRanges())
\* aborts the process.  back() of an empty vector is undefined: the call
\* crashes or returns whatever bytes lie before the buffer.
NextPartitionKey ==
  /\ pc = "ready"
  /\ LET c == range_bounds_to_partition_key_ranges_
     IN IF ~HasMorePartitionKeyRanges(c)
        THEN pc' = "aborted" /\ UNCHANGED <<phase, next_key>>
        ELSE IF Back(c).partition_key_ranges # <<>>
        THEN /\ next_key' = Back(Back(c).partition_key_ranges).start
             /\ phase' = "got"
             /\ pc' = pc
        ELSE \/ pc' = "crashed" /\ UNCHANGED <<phase, next_key>>
             \/ /\ next_key' \in Keys
                /\ phase' = "got"
                /\ pc' = pc
  /\ UNCHANGED <<table, scan_spec, range_bounds_to_partition_key_ranges_,
                 fresh, cleared, visited>>

\* A pruner that is initialized and then advanced by any calls of
\* RemovePartitionKeyRange.
Next ==
  \/ PrunerInit
  \/ \E upper_bound \in Keys : RemovePartitionKeyRange(upper_bound)

Spec == Init /\ [][Next]_vars

\* The scanner of the class comment: it asks for the next partition key and
\* then removes the ranges through an upper bound beyond that key, the empty
\* upper bound being the end of the last tablet.
ScanNext ==
  /\ phase = "idle"
  /\ NextPartitionKey

ScanRemove(upper_bound) ==
  /\ phase = "got"
  /\ upper_bound = Empty \/ KeyLess(next_key, upper_bound)
  /\ RemovePartitionKeyRange(upper_bound)

NextScan ==
  \/ PrunerInit
  \/ ScanNext
  \/ \E upper_bound \in Keys : ScanRemove(upper_bound)

SpecScan == Init /\ [][NextScan]_vars

\* The keys the tablets are laid out over: partition keys of up to three
\* components.
PartitionKeys == SeqsUpTo(Comps, 3)

\* The tablets of a table whose partition key interval holds the key.
TabletsContaining(tbl, key) ==
  {partition \in Tablets(tbl.ranges) :
     /\ KeyLeq(partition.partition_key_start, key)
     /\ \/ partition.partition_key_end = Empty
        \/ KeyLess(key, partition.partition_key_end)}

\* The partition key intervals of the tablets of the table partition the
\* key space.
PartitionsKeySpace(tbl) ==
  \A key \in PartitionKeys : Cardinality(TabletsContaining(tbl, key)) = 1

\* A constructed pruner for a scan of a table whose tablets partition the
\* key space.
InitTablets ==
  /\ Init
  /\ PartitionsKeySpace(table)

\* The scanner of the class comment, tablet by tablet: it retrieves the
\* partition key of the next tablet to scan (ScanNext), locates the tablet
\* that contains the key and scans it (ScanLookup), and notifies the pruner
\* with the tablet's upper bound partition key (ScanAdvance).  It calls
\* NextPartitionKey only while HasMorePartitionKeyRanges() is true.
ScanNextTablet ==
  /\ HasMorePartitionKeyRanges(range_bounds_to_partition_key_ranges_)
  /\ ScanNext

ScanLookup ==
  /\ pc = "ready"
  /\ phase = "got"
  /\ TabletsContaining(table, next_key) # {}
  /\ phase' = "found"
  /\ visited' = visited \cup TabletsContaining(table, next_key)
  /\ UNCHANGED <<table, scan_spec, pc, range_bounds_to_partition_key_ranges_,
                 fresh, cleared, next_key>>

ScanAdvance ==
  /\ phase = "found"
  /\ \E partition \in TabletsContaining(table, next_key) :
        RemovePartitionKeyRange(partition.partition_key_end)

\* One step of the scanner loop.
ScanLoop ==
  \/ ScanNextTablet
  \/ ScanLookup
  \/ ScanAdvance

NextTablets ==
  \/ PrunerInit
  \/ ScanLoop

SpecTablets == InitTablets /\ [][NextTablets]_vars

\* The scanner is a sequential loop: once started it takes its next step
\* as long as it has one.
SpecTabletsFair == SpecTablets /\ WF_vars(ScanLoop)

\* ---------------------------------------------------------------- claims
Cursor == range_bounds_to_partition_key_ranges_

\* The state right after Init of a scan that is not short-circuit.
AfterInit == pc = "ready" /\ fresh /\ ~scan_spec.short_circuit

\* The tablets of the scanned table that hold a row matching the scan.
MatchingTablets ==
  UNION {TabletsOf(row, table.partition_schema.range_schema, table.ranges) :
           row \in {r \in Rows : RowMatches(r, scan_spec)}}

\* The tablet's partition key interval meets the scan's partition key bounds.
WithinPartitionKeyBounds(partition) ==
  /\ \/ scan_spec.exclusive_upper_bound_partition_key = Empty
     \/ KeyLess(partition.partition_key_start,
                scan_spec.exclusive_upper_bound_partition_key)
  /\ \/ scan_spec.lower_bound_partition_key = Empty
     \/ partition.partition_key_end = Empty
     \/ KeyLess(scan_spec.lower_bound_partition_key, partition.partition_key_end)

BucketRanges(c, i) == c[i].partition_key_ranges

\* The start of the last stored range of the last non-empty RangeBucket.
LastNonEmptyStart(c) ==
  LET nonempty == {i \in 1..Len(c) : BucketRanges(c, i) # <<>>}
      last == CHOOSE i \in nonempty : \A j \in nonempty : j <= i
  IN Back(BucketRanges(c, last)).start

\* C3 as stated: whenever HasMorePartitionKeyRanges holds, NextPartitionKey
\* is well defined (it does not crash) and the key it returned is the start
\* of the last stored range of the last non-empty RangeBucket.
NextKeyWellDefined ==
  /\ pc # "crashed"
  /\ (pc = "ready" /\ phase = "got") => next_key = LastNonEmptyStart(Cursor)

\* C2 as stated: under the scanner's discipline (a NextPartitionKey, then a
\* RemovePartitionKeyRange with an upper bound beyond the key returned), each
\* key returned is strictly greater than the one returned before it.
MonotoneCursor ==
  [][(phase = "idle" /\ phase' = "got" /\ next_key # NoKey)
       => KeyLess(next_key, next_key')]_vars

\* The tablets of the scanned table.
TableTablets == Tablets(table.ranges)

KeyMax(x, y) == IF KeyLess(x, y) THEN y ELSE x

\* The half-open intervals [s1, e1) and [s2, e2) share a key, an empty end
\* standing for +infinity.
Intersects(s1, e1, s2, e2) ==
  /\ e1 = Empty \/ KeyLess(KeyMax(s1, s2), e1)
  /\ e2 = Empty \/ KeyLess(KeyMax(s1, s2), e2)

\* Some range of the bucket intersects the partition's partition key interval.
BucketIntersects(bucket, partition) ==
  \E k \in 1..Len(bucket.partition_key_ranges) :
     Intersects(bucket.partition_key_ranges[k].start,
                bucket.partition_key_ranges[k].end,
                partition.partition_key_start, partition.partition_key_end)

\* C4 as stated: ShouldPrune(P) is true iff no range remaining in any
\* RangeBucket intersects P's partition key interval.
ShouldPruneIffNoRangeIntersects ==
  pc = "ready" =>
    \A partition \in TableTablets :
       ShouldPrune(Cursor, partition)
         <=> ~\E i \in 1..Len(Cursor) : BucketIntersects(Cursor[i], partition)

\* C4 (amended): ShouldPrune(P) is true iff no range remaining in a
\* RangeBucket that the range-bounds test does not skip for P intersects P's
\* partition key interval.
ShouldPruneIffNoKeptRangeIntersects ==
  pc = "ready" =>
    \A partition \in TableTablets :
       ShouldPrune(Cursor, partition)
         <=> ~\E i \in 1..Len(Cursor) :
                /\ ~BucketSkipped(Cursor[i].range_bounds, partition)
                /\ BucketIntersects(Cursor[i], partition)

\* C5 as stated: a RangeBucket whose range_bounds are set does not keep a
\* partition alive when neither bound equals the partition's range key, the
\* first (empty lower bound) and last (empty upper bound) segments included.
OtherSegmentNeverKeepsAlive ==
  pc = "ready" =>
    \A partition \in TableTablets : \A i \in 1..Len(Cursor) :
       (/\ Cursor[i].range_bounds # RangeBounds(Empty, Empty)
        /\ partition.range_key_start # Cursor[i].range_bounds.lower
        /\ partition.range_key_end # Cursor[i].range_bounds.upper)
         => ~BucketKeepsPartition(Cursor[i], partition)

\* C6: from any reachable cursor, a second RemovePartitionKeyRange(u) leaves
\* the cursor a first RemovePartitionKeyRange(u) produced unchanged.
IdempotentAdvance ==
  pc = "ready" =>
    \A u \in Keys :
       RemoveRanges(RemoveRanges(Cursor, u), u) = RemoveRanges(Cursor, u)

\* C7: once RemovePartitionKeyRange("") has been called the cursor is empty,
\* NumRangesRemaining is 0 and HasMorePartitionKeyRanges is false, whatever
\* RemovePartitionKeyRange calls follow.
ClearingAdvance ==
  cleared => /\ Cursor = <<>>
             /\ NumRangesRemaining(Cursor) = 0
             /\ ~HasMorePartitionKeyRanges(Cursor)

\* The range r holds the key.
RangeCovers(r, key) ==
  /\ KeyLeq(r.start, key)
  /\ r.end = Empty \/ KeyLess(key, r.end)

\* The key lies in a range of the cursor c.
Covered(c, key) ==
  \E i \in 1..Len(c) : \E k \in 1..Len(c[i].partition_key_ranges) :
     RangeCovers(c[i].partition_key_ranges[k], key)

\* The cursor c holds the range r.
HasRange(c, r) ==
  \E i \in 1..Len(c) : \E k \in 1..Len(c[i].partition_key_ranges) :
     c[i].partition_key_ranges[k] = r

\* Every key covered by a range of c2 is covered by a range of c1.  A range
\* that c1 holds as well covers no other key, so the keys are enumerated
\* for the other ranges of c2 only.
CoveredSubset(c2, c1) ==
  \A i \in 1..Len(c2) : \A k \in 1..Len(c2[i].partition_key_ranges) :
     \/ HasRange(c1, c2[i].partition_key_ranges[k])
     \/ \A key \in Keys :
           RangeCovers(c2[i].partition_key_ranges[k], key) => Covered(c1, key)

\* Every range of bucket i of c2 is a range of bucket i of c1 with the same
\* end and a start that is not lower.
ShrunkFrom(c2, c1) ==
  \A i \in 1..Len(c2) :
     /\ i <= Len(c1)
     /\ \A k \in 1..Len(c2[i].partition_key_ranges) :
           \E j \in 1..Len(c1[i].partition_key_ranges) :
              /\ c2[i].partition_key_ranges[k].end = c1[i].partition_key_ranges[j].end
              /\ KeyLeq(c1[i].partition_key_ranges[j].start,
                        c2[i].partition_key_ranges[k].start)

\* C8: after Init, a RemovePartitionKeyRange call never increases
\* NumRangesRemaining, never extends the set of covered keys, and never adds
\* a range, lowers a start or raises an end.
MonotoneShrink ==
  [][pc = "ready" =>
       /\ NumRangesRemaining(Cursor') <= NumRangesRemaining(Cursor)
       /\ CoveredSubset(Cursor', Cursor)
       /\ ShrunkFrom(Cursor', Cursor)]_vars

\* C9: after Init of a short-circuit scan the cursor is empty,
\* HasMorePartitionKeyRanges is false, NumRangesRemaining is 0 and every
\* partition is pruned.
ShortCircuitPrunesAll ==
  (pc = "ready" /\ scan_spec.short_circuit) =>
     /\ Cursor = <<>>
     /\ ~HasMorePartitionKeyRanges(Cursor)
     /\ NumRangesRemaining(Cursor) = 0
     /\ \A partition \in TableTablets : ShouldPrune(Cursor, partition)

\* The scan of the scenario table with the given predicates and no bounds.
ScenarioScan(pa, pb, pc3) ==
  /\ table = TableScenario
  /\ AfterInit
  /\ scan_spec.predicates = <<pa, pb, pc3>>
  /\ scan_spec.lower_bound_partition_key = Empty
  /\ scan_spec.exclusive_upper_bound_partition_key = Empty

\* The ranges of the cursor in ascending order.
RECURSIVE AscendingRanges(_)
AscendingRanges(c) ==
  IF c = <<>> THEN <<>>
  ELSE Reverse(Head(c).partition_key_ranges) \o AscendingRanges(Tail(c))

\* The range [(s..., 0), (s..., 1)) of the scenario table for c = 0.
RangeOfC0(buckets) == PartitionKeyRange(buckets \o <<0>>, buckets \o <<1>>)

\* C10: for the table of Init's comment, Init produces exactly the ranges of
\* the table of examples for each of the eight predicate sets.
ScenarioTable ==
  /\ ScenarioScan(Equality(0), Equality(2), Equality(0))
       => AscendingRanges(Cursor) = <<RangeOfC0(<<0, 2>>)>>
  /\ ScenarioScan(Equality(0), Equality(2), NoPredicate)
       => AscendingRanges(Cursor) = <<PartitionKeyRange(<<0, 2>>, <<0, 3>>)>>
  /\ ScenarioScan(Equality(0), NoPredicate, Equality(0))
       => AscendingRanges(Cursor) =
            <<RangeOfC0(<<0, 0>>), RangeOfC0(<<0, 1>>), RangeOfC0(<<0, 2>>)>>
  /\ ScenarioScan(NoPredicate, Equality(2), Equality(0))
       => AscendingRanges(Cursor) = <<RangeOfC0(<<0, 2>>), RangeOfC0(<<1, 2>>)>>
  /\ ScenarioScan(Equality(0), NoPredicate, NoPredicate)
       => AscendingRanges(Cursor) = <<PartitionKeyRange(<<0>>, <<1>>)>>
  /\ ScenarioScan(NoPredicate, Equality(2), NoPredicate)
       => AscendingRanges(Cursor) =
            <<PartitionKeyRange(<<0, 2>>, <<0, 3>>), PartitionKeyRange(<<1, 2>>, <<1, 3>>)>>
  /\ ScenarioScan(NoPredicate, NoPredicate, Equality(0))
       => AscendingRanges(Cursor) =
            <<RangeOfC0(<<0, 0>>), RangeOfC0(<<0, 1>>), RangeOfC0(<<0, 2>>),
              RangeOfC0(<<1, 0>>), RangeOfC0(<<1, 1>>), RangeOfC0(<<1, 2>>)>>
  /\ ScenarioScan(NoPredicate, NoPredicate, NoPredicate)
       => AscendingRanges(Cursor) = <<PartitionKeyRange(Empty, Empty)>>

\* The cursor Init left for the scan.
InitialCursor == InitRanges(table.partition_schema, scan_spec)

ShouldPruneWitness ==
  /\ pc = "ready" /\ ~fresh
  /\ \E partition \in TableTablets :
        /\ ShouldPrune(Cursor, partition)
        /\ \E i \in 1..Len(Cursor) :
              /\ BucketSkipped(Cursor[i].range_bounds, partition)
              /\ BucketIntersects(Cursor[i], partition)
  /\ \E partition \in TableTablets : ~ShouldPrune(Cursor, partition)

\* Witness of C6: a cursor with several buckets that has been advanced and
\* that a further advance trims without emptying it.
IdempotentAdvanceWitness ==
  /\ pc = "ready" /\ ~fresh /\ Len(Cursor) > 1
  /\ \E u \in Keys :
        /\ RemoveRanges(Cursor, u) # Cursor
        /\ HasMorePartitionKeyRanges(RemoveRanges(Cursor, u))
        /\ NumRangesRemaining(RemoveRanges(Cursor, u)) < NumRangesRemaining(Cursor)
        /\ RemoveRanges(RemoveRanges(Cursor, u), u) = RemoveRanges(Cursor, u)

\* Witness of C7: a scan that had ranges after Init and has been cleared.
ClearingAdvanceWitness ==
  /\ pc = "ready" /\ cleared
  /\ NumRangesRemaining(InitialCursor) > 1
  /\ Cursor = <<>>

\* Witness of C8: an advance has removed some ranges of the scan and moved
\* the start of another.
MonotoneShrinkWitness ==
  /\ pc = "ready" /\ ~fresh /\ ~cleared
  /\ 0 < NumRangesRemaining(Cursor)
  /\ NumRangesRemaining(Cursor) < NumRangesRemaining(InitialCursor)
  /\ \E i \in 1..Len(Cursor) : \E k \in 1..Len(BucketRanges(Cursor, i)) :
        \A j \in 1..Len(BucketRanges(InitialCursor, i)) :
           BucketRanges(InitialCursor, i)[j].start # BucketRanges(Cursor, i)[k].start

\* Witness of C9: a short-circuit scan has been initialized, which would
\* have had ranges and kept tablets were it not short-circuit.
ShortCircuitWitness ==
  /\ pc = "ready" /\ fresh /\ scan_spec.short_circuit
  /\ Cursor = <<>>
  /\ HasMorePartitionKeyRanges(
       InitRangesAlways(table.partition_schema, scan_spec))

\* Witness of C10: the scan a = 0, c = 0 of the scenario table with its
\* three ranges.
ScenarioTableWitness ==
  /\ ScenarioScan(Equality(0), NoPredicate, Equality(0))
  /\ NumRangesRemaining(Cursor) = 3

\* C11: a NextPartitionKey call in a state where HasMorePartitionKeyRanges
\* is false aborts the program and returns no key.  (In the scanner a step
\* taken from an idle, initialized pruner is a NextPartitionKey call.)
NextWithoutRangesIsFatal ==
  [][(pc = "ready" /\ phase = "idle" /\ ~HasMorePartitionKeyRanges(Cursor))
       => (pc' = "aborted" /\ next_key' = next_key /\ phase' = phase)]_vars

\* Witness of C11: the program aborted in NextPartitionKey after the scanner
\* had consumed all the ranges of a scan that had several.
NextWithoutRangesWitness ==
  /\ pc = "aborted" /\ ~fresh /\ ~cleared /\ ~scan_spec.short_circuit
  /\ NumRangesRemaining(InitialCursor) > 1
  /\ next_key # NoKey

\* The same after a short-circuit Init and after the cursor was cleared.
NextWithoutRangesShortCircuit == pc = "aborted" /\ fresh /\ scan_spec.short_circuit
NextWithoutRangesCleared == pc = "aborted" /\ cleared

\* The range is not empty: start < end, or the end is unbounded.
WellFormedRange(r) == r.end = Empty \/ KeyLess(r.start, r.end)

\* The stored vector v of one RangeBucket: every range is well formed, and
\* a range stored before another has a greater start and is disjoint from it.
BucketInvariant(v) ==
  /\ \A k \in 1..Len(v) : WellFormedRange(v[k])
  /\ \A k \in 1..Len(v) : \A j \in (k + 1)..Len(v) :
        /\ KeyLess(v[j].start, v[k].start)
        /\ ~Intersects(v[j].start, v[j].end, v[k].start, v[k].end)

\* C12: in every state reached by Init and RemovePartitionKeyRange calls,
\* the ranges of each RangeBucket are pairwise disjoint, sorted in
\* descending order of start, and each has start < end or an empty end.
RangeBucketInvariant ==
  pc = "ready" => \A i \in 1..Len(Cursor) : BucketInvariant(BucketRanges(Cursor, i))

\* Witness of C12: after an advance that trimmed a range, a cursor of
\* several buckets of which one holds several ranges.
RangeBucketInvariantWitness ==
  /\ pc = "ready" /\ ~fresh /\ Len(Cursor) > 1
  /\ \E i \in 1..Len(Cursor) : Len(BucketRanges(Cursor, i)) > 2
  /\ \E i \in 1..Len(Cursor) : \E k \in 1..Len(BucketRanges(Cursor, i)) :
        ~HasRange(InitialCursor, BucketRanges(Cursor, i)[k])

\* C13 as stated: right after Init, the ranges listed bucket by bucket, each
\* bucket from the back of its stored vector to the front, have their
\* starts in ascending order (equal starts are let pass).
GlobalOrdering ==
  (pc = "ready" /\ fresh) =>
     LET ascending == AscendingRanges(Cursor)
     IN \A k \in 1..(Len(ascending) - 1) :
           KeyLeq(ascending[k].start, ascending[k + 1].start)

\* The scan's range bounds, and the range segment a RangeBucket stands for.
ScanBounds == ScanRangeBounds(table.partition_schema, scan_spec)
SegmentOf(range_bounds) ==
  LET segs == table.partition_schema.ranges_with_hash_schemas
  IN segs[CHOOSE k \in 1..Len(segs) :
            segs[k].lower = range_bounds.lower /\ segs[k].upper = range_bounds.upper]

\* A state right after Init on a table with custom range segments, for a
\* scan without partition key bounds: every stored key is then made of one
\* component per hash dimension of its segment followed by a range bound.
AfterInitBranchB ==
  /\ AfterInit
  /\ table.partition_schema.ranges_with_hash_schemas # <<>>
  /\ scan_spec.lower_bound_partition_key = Empty
  /\ scan_spec.exclusive_upper_bound_partition_key = Empty

\* The range portion of a stored key of a segment with h hash dimensions.
RangePortion(key, h) == SubSeq(key, h + 1, Len(key))

\* The range portion of the range r lies inside [seg.lower, seg.upper).
InsideSegment(r, seg) ==
  LET h == Len(seg.hash_schema)
  IN /\ \/ seg.lower = Empty
        \/ /\ RangePortion(r.start, h) # Empty
           /\ KeyLeq(seg.lower, RangePortion(r.start, h))
     /\ \/ seg.upper = Empty
        \/ /\ RangePortion(r.end, h) # Empty
           /\ KeyLeq(RangePortion(r.end, h), seg.upper)

\* C14 as stated: in Branch B, when the scan has a range bound the range
\* portion of every range stored for a segment lies inside the segment;
\* when it has none, the ranges carry the segment's own bounds.
BranchBBoundsIntersected ==
  AfterInitBranchB =>
    \A i \in 1..Len(Cursor) : \A k \in 1..Len(BucketRanges(Cursor, i)) :
       LET seg == SegmentOf(Cursor[i].range_bounds)
           r == BucketRanges(Cursor, i)[k]
           h == Len(seg.hash_schema)
       IN IF ScanBounds.lower = Empty /\ ScanBounds.upper = Empty
          THEN /\ RangePortion(r.start, h) = seg.lower
               /\ RangePortion(r.end, h) = seg.upper
          ELSE InsideSegment(r, seg)

\* The calls of ConstructPartitionKeyRanges that Init makes for the scan:
\* none for a short-circuit scan, one for the table-wide hash schema, or one
\* per included range segment.
ConstructCalls ==
  LET segs == table.partition_schema.ranges_with_hash_schemas
      included == IncludedSegments(segs, ScanBounds, 1)
  IN IF scan_spec.short_circuit THEN {}
     ELSE IF segs = <<>>
     THEN {[hash_schema |-> table.partition_schema.hash_schema,
            range_bounds |-> ScanBounds]}
     ELSE {[hash_schema |-> included[k].hash_schema,
            range_bounds |-> SegmentBounds(included[k], ScanBounds)] :
             k \in 1..Len(included)}

\* The bitsets, the constrained index and the untrimmed ranges of a call.
BitsetsOf(call) == HashBucketBitsets(call.hash_schema, scan_spec.predicates)
ConstrainedIndexOf(call) == ConstrainedIndex(BitsetsOf(call), call.range_bounds)
UntrimmedOf(call) ==
  UntrimmedPartitionKeyRanges(scan_spec, call.hash_schema, call.range_bounds)

\* The number of set bits of a bitset.
SetBits(bitset) == Cardinality({bucket \in DOMAIN bitset : bitset[bucket]})

\* The product of the bucket counts of the unconstrained dimensions (those
\* whose bitset has no cleared bit) among the first n.
RECURSIVE UnconstrainedProduct(_, _)
UnconstrainedProduct(bitsets, n) ==
  IF n = 0 THEN 1
  ELSE (IF HasClearedBit(bitsets[n]) THEN 1 ELSE SetBits(bitsets[n]))
       * UnconstrainedProduct(bitsets, n - 1)

\* The product of the numbers of surviving buckets of the first n dimensions.
RECURSIVE SurvivingProduct(_, _)
SurvivingProduct(bitsets, n) ==
  IF n = 0 THEN 1 ELSE SetBits(bitsets[n]) * SurvivingProduct(bitsets, n - 1)

RECURSIVE Advanced(_, _)
Advanced(v, u) ==
  IF v = <<>> THEN <<>>
  ELSE (IF Head(v).end # Empty /\ KeyLeq(Head(v).end, u) THEN <<>>
        ELSE <<PartitionKeyRange(KeyMax(Head(v).start, u), Head(v).end)>>)
       \o Advanced(Tail(v), u)

\* Every range of the cursor c starts at or after u and ends after u.
AllPast(c, u) ==
  \A i \in 1..Len(c) : \A k \in 1..Len(BucketRanges(c, i)) :
     /\ KeyLeq(u, BucketRanges(c, i)[k].start)
     /\ BucketRanges(c, i)[k].end = Empty \/ KeyLess(u, BucketRanges(c, i)[k].end)

\* C16: in every reachable state, RemovePartitionKeyRange(u) with u not empty
\* removes from every bucket the ranges that end at or before u, raises to u
\* the start of the range that u falls into and leaves the others as they
\* are; and right after Init with a lower bound partition key L every range
\* starts at or after L.
AdvancePostcondition ==
  pc = "ready" =>
    /\ \A u \in Keys \ {Empty} :
          LET after == RemoveRanges(Cursor, u)
          IN /\ Len(after) = Len(Cursor)
             /\ \A i \in 1..Len(Cursor) :
                   /\ after[i].range_bounds = Cursor[i].range_bounds
                   /\ BucketRanges(after, i) = Advanced(BucketRanges(Cursor, i), u)
             /\ AllPast(after, u)
    /\ (fresh /\ scan_spec.lower_bound_partition_key # Empty)
          => AllPast(Cursor, scan_spec.lower_bound_partition_key)

\* Witness of C16: Init with a lower bound partition key has removed a range
\* of the scan, and a further advance removes another and raises a start.
AdvancePostconditionWitness ==
  /\ AfterInit /\ scan_spec.lower_bound_partition_key # Empty
  /\ NumRangesRemaining(Cursor)
       < NumRangesRemaining(BuildRanges(table.partition_schema, scan_spec))
  /\ \E u \in Keys \ {Empty} :
        LET after == RemoveRanges(Cursor, u)
        IN /\ 0 < NumRangesRemaining(after)
           /\ NumRangesRemaining(after) < NumRangesRemaining(Cursor)
           /\ \E i \in 1..Len(after) : \E k \in 1..Len(BucketRanges(after, i)) :
                 ~HasRange(Cursor, BucketRanges(after, i)[k])

\* The ranges of v intersected with (-infinity, upper): a range that starts
\* at or after upper is dropped, one that ends after upper (or has no end)
\* ends at upper, the others are kept as they are.
RECURSIVE Clamped(_, _)
Clamped(v, upper) ==
  IF v = <<>> THEN <<>>
  ELSE (IF KeyLeq(upper, Head(v).start) THEN <<>>
        ELSE IF Head(v).end = Empty \/ KeyLess(upper, Head(v).end)
             THEN <<PartitionKeyRange(Head(v).start, upper)>>
             ELSE <<Head(v)>>)
       \o Clamped(Tail(v), upper)

\* The ranges of v that upper falls strictly inside.
Straddling(v, upper) ==
  {k \in 1..Len(v) : KeyLess(v[k].start, upper)
                      /\ (v[k].end = Empty \/ KeyLess(upper, v[k].end))}

\* The scan's exclusive upper bound partition key and the result of a call.
SPU == scan_spec.exclusive_upper_bound_partition_key
ResultOf(call) ==
  ConstructPartitionKeyRanges(scan_spec, call.hash_schema, call.range_bounds)

\* C17: when the scan's exclusive upper bound partition key is not empty,
\* ConstructPartitionKeyRanges returns the untrimmed ranges intersected with
\* (-infinity, SPU): at most one range is clamped, and every returned range
\* has a non-empty end <= SPU.
TrimToUpperPartitionKey ==
  (pc = "ready" /\ fresh /\ SPU # Empty) =>
    \A call \in ConstructCalls :
       /\ ResultOf(call) = Clamped(UntrimmedOf(call), SPU)
       /\ Cardinality(Straddling(UntrimmedOf(call), SPU)) <= 1
       /\ \A k \in 1..Len(ResultOf(call)) :
             /\ ResultOf(call)[k].end # Empty
             /\ KeyLeq(ResultOf(call)[k].end, SPU)

\* Witness of C17: Init has made a call whose trim clamped a range and left
\* another unchanged.
TrimToUpperPartitionKeyWitness ==
  /\ pc = "ready" /\ SPU # Empty
  /\ \E call \in ConstructCalls :
        /\ Straddling(UntrimmedOf(call), SPU) # {}
        /\ Len(ResultOf(call)) > 1

\* A call whose trim dropped a range and kept another.
TrimDropsWitness ==
  /\ pc = "ready" /\ SPU # Empty
  /\ \E call \in ConstructCalls :
        /\ Len(ResultOf(call)) < Len(UntrimmedOf(call))
        /\ Len(ResultOf(call)) > 0

\* The range bounds of the buckets of a cursor, in order.
RECURSIVE BoundsOf(_)
BoundsOf(c) ==
  IF c = <<>> THEN <<>> ELSE <<Head(c).range_bounds>> \o BoundsOf(Tail(c))

\* The bounds of the segments that intersect the interval [lower, upper),
\* in the order of the segments.
RECURSIVE IntersectingBounds(_, _, _)
IntersectingBounds(segs, lower, upper) ==
  IF segs = <<>> THEN <<>>
  ELSE (IF Intersects(Head(segs).lower, Head(segs).upper, lower, upper)
        THEN <<RangeBounds(Head(segs).lower, Head(segs).upper)>> ELSE <<>>)
       \o IntersectingBounds(Tail(segs), lower, upper)

\* C18: right after Init on a table with custom range segments, the buckets
\* of the cursor are, in the order of ranges_with_hash_schemas, the segments
\* that intersect the scan's range interval, each with the segment's own
\* bounds as range_bounds.
SegmentSelection ==
  (AfterInit /\ table.partition_schema.ranges_with_hash_schemas # <<>>) =>
    BoundsOf(Cursor)
      = IntersectingBounds(table.partition_schema.ranges_with_hash_schemas,
                           ScanBounds.lower, ScanBounds.upper)

\* Witness of C18: a scan bounded on both sides, for which Init stored some
\* of the segments of the table and left out others.
SegmentSelectionWitness ==
  /\ AfterInit
  /\ ScanBounds.lower # Empty /\ ScanBounds.upper # Empty
  /\ 0 < Len(Cursor)
  /\ Len(Cursor) < Len(table.partition_schema.ranges_with_hash_schemas)

\* The number C of bucket components the claim gives for a call: the number
\* of hash dimensions if a range bound is set, else the position of the last
\* dimension whose bitset has a cleared bit, 0 if there is none.
BucketComponents(call) ==
  IF call.range_bounds.lower # Empty \/ call.range_bounds.upper # Empty
  THEN Len(call.hash_schema)
  ELSE LET cleared_dims == {i \in 1..Len(call.hash_schema) :
                              \E bucket \in DOMAIN BitsetsOf(call)[i] :
                                 ~BitsetsOf(call)[i][bucket]}
       IN Cardinality({i \in 1..Len(call.hash_schema) :
                         \E j \in cleared_dims : i <= j})

\* C19: every range ConstructPartitionKeyRanges builds (lines 255-308) has
\* in its start exactly C components of surviving buckets, followed by the
\* range lower bound, and as many bucket components in its end; when no
\* bitset has a cleared bit and both range bounds are empty, it builds the
\* single range [(), ()).
TruncationAtConstrainedIndex ==
  (pc = "ready" /\ fresh) =>
    \A call \in ConstructCalls :
       /\ \A k \in 1..Len(UntrimmedOf(call)) :
             LET r == UntrimmedOf(call)[k]
             IN /\ Len(r.start) = BucketComponents(call) + Len(call.range_bounds.lower)
                /\ Len(r.end) = BucketComponents(call) + Len(call.range_bounds.upper)
                /\ \A i \in 1..BucketComponents(call) : BitsetsOf(call)[i][r.start[i]]
       /\ (BucketComponents(call) = 0 /\ call.range_bounds = RangeBounds(Empty, Empty))
             => UntrimmedOf(call) = <<PartitionKeyRange(Empty, Empty)>>

\* Witness of C19: Init has made a call without range bounds in which a
\* constrained hash dimension is followed by an unconstrained one, which is
\* cut off the keys.
TruncationWitness ==
  /\ pc = "ready"
  /\ \E call \in ConstructCalls :
        /\ call.range_bounds = RangeBounds(Empty, Empty)
        /\ 0 < BucketComponents(call)
        /\ BucketComponents(call) < Len(call.hash_schema)
        /\ UntrimmedOf(call) # <<>>

\* A call of a table with hash dimensions that yields the range [(), ()).
TruncationToNothingWitness ==
  /\ pc = "ready"
  /\ \E call \in ConstructCalls :
        /\ call.hash_schema # <<>>
        /\ UntrimmedOf(call) = <<PartitionKeyRange(Empty, Empty)>>

\* The keys that extend the first n components of the key start.
Extensions(start, n) == {SubSeq(start, 1, n) \o suffix : suffix \in Keys}

\* C20: in every range ConstructPartitionKeyRanges builds, the bucket
\* component i of the end is the bucket b of the start plus one if i is the
\* last component before the constrained index and the range upper bound is
\* empty, and b otherwise; no carry is made when b + 1 is num_buckets; and
\* with the increment the end is greater than every key that extends the
\* bucket components of the start.
ExclusiveUpperConversion ==
  (pc = "ready" /\ fresh) =>
    \A call \in ConstructCalls : \A k \in 1..Len(UntrimmedOf(call)) :
       LET r == UntrimmedOf(call)[k]
           C == BucketComponents(call)
       IN /\ \A i \in 1..C :
                r.end[i] = IF i = C /\ call.range_bounds.upper = Empty
                           THEN r.start[i] + 1 ELSE r.start[i]
          /\ (C > 0 /\ call.range_bounds.upper = Empty) =>
                \A key \in Extensions(r.start, C) : KeyLess(key, r.end)

\* Witness of C20: Init has made a call that builds a range for the last
\* bucket of the final constrained dimension, preceded by another dimension:
\* its end carries num_buckets itself after the unchanged earlier bucket.
ExclusiveUpperWitness ==
  /\ pc = "ready" /\ fresh
  /\ \E call \in ConstructCalls : \E k \in 1..Len(UntrimmedOf(call)) :
        LET r == UntrimmedOf(call)[k]
            C == BucketComponents(call)
        IN /\ C > 1 /\ call.range_bounds.upper = Empty
           /\ r.end[C] = call.hash_schema[C].num_buckets
           /\ r.end[C - 1] = r.start[C - 1]

\* A call with a range upper bound, in which no bucket is incremented.
NoIncrementWitness ==
  /\ pc = "ready" /\ fresh
  /\ \E call \in ConstructCalls :
        /\ call.hash_schema # <<>> /\ call.range_bounds.upper # Empty
        /\ UntrimmedOf(call) # <<>>

\* ---------------------------------------------------------------- C21
\* The tuples of the cross product of the predicate values of the columns of
\* a hash dimension, one value per column, in column order.
ValueTuples(hash_dimension) ==
  LET cols == hash_dimension.column_ids
      allowed(k) == LET predicate == scan_spec.predicates[cols[k]]
                    IN IF predicate.type = "Equality" THEN {predicate.lower}
                       ELSE IF predicate.type = "InList" THEN predicate.values
                       ELSE {}
  IN {tuple \in [1..Len(cols) -> Values] :
        \A k \in 1..Len(cols) : tuple[k] \in allowed(k)}

\* Every column of the dimension has an Equality or InList predicate.
FullyConstrained(hash_dimension) ==
  \A k \in 1..Len(hash_dimension.column_ids) :
     scan_spec.predicates[hash_dimension.column_ids[k]].type
       \in {"Equality", "InList"}

\* C21: in every call of ConstructPartitionKeyRanges made by Init, bucket b
\* of a hash dimension whose columns all have an Equality or InList
\* predicate survives iff some tuple of the cross product of the predicate
\* values hashes to b, and all the buckets of any other dimension survive.
HashComponentPruning ==
  (pc = "ready" /\ fresh) =>
    \A call \in ConstructCalls :
       \A i \in 1..Len(call.hash_schema) :
          LET hash_dimension == call.hash_schema[i]
              bitset == BitsetsOf(call)[i]
          IN /\ DOMAIN bitset = 0..(hash_dimension.num_buckets - 1)
             /\ \A bucket \in DOMAIN bitset :
                  bitset[bucket] <=>
                    (FullyConstrained(hash_dimension) =>
                       \E tuple \in ValueTuples(hash_dimension) :
                          HashValueForEncodedColumns(tuple, hash_dimension)
                            = bucket)

\* Init pruned a two-column dimension to some of its buckets through the
\* cross product of an Equality and an InList predicate, and left a
\* two-column dimension with one unconstrained column whole.
HashComponentPruningWitness ==
  /\ pc = "ready" /\ fresh
  /\ \E call \in ConstructCalls :
       \E i \in 1..Len(call.hash_schema) :
          /\ Len(call.hash_schema[i].column_ids) = 2
          /\ FullyConstrained(call.hash_schema[i])
          /\ Cardinality(ValueTuples(call.hash_schema[i])) = 2
          /\ SetBits(BitsetsOf(call)[i]) = 2

HashComponentUnconstrainedWitness ==
  /\ pc = "ready" /\ fresh
  /\ \E call \in ConstructCalls :
       \E i \in 1..Len(call.hash_schema) :
          /\ Len(call.hash_schema[i].column_ids) = 2
          /\ ~FullyConstrained(call.hash_schema[i])
          /\ CanPruneAny(call.hash_schema[i], scan_spec.predicates)
          /\ SetBits(BitsetsOf(call)[i]) = call.hash_schema[i].num_buckets

\* ---------------------------------------------------------------- C22
\* RANGE (a) and RANGE (a, b) without hash dimensions, one unbounded range
\* partition: the range columns are a strict prefix of the primary key.
TablePrefixOne ==
  Table(PartitionSchema(<<>>, <<1>>, <<>>), <<<<Empty, Empty>>>>)

TablePrefixPair ==
  Table(PartitionSchema(<<>>, <<1, 2>>, <<>>), <<<<Empty, Empty>>>>)

\* The scans that have primary key bounds only, with every exclusive upper
\* bound key of the schema.
KeyBoundScanSpecs ==
  {[short_circuit |-> FALSE,
    predicates |-> <<NoPredicate, NoPredicate, NoPredicate>>,
    lower_bound_key |-> lk,
    exclusive_upper_bound_key |-> uk,
    lower_bound_partition_key |-> Empty,
    exclusive_upper_bound_partition_key |-> Empty] :
     lk \in {NoKey, <<0, 0, 1>>}, uk \in Rows}

InitKeyBounds ==
  /\ table \in {TablePrefixOne, TablePrefixPair}
  /\ scan_spec \in {spec \in KeyBoundScanSpecs : ValidScanSpec(spec)}
  /\ pc = "new"
  /\ range_bounds_to_partition_key_ranges_ = <<>>
  /\ fresh = FALSE
  /\ cleared = FALSE
  /\ phase = "idle"
  /\ next_key = NoKey
  /\ visited = {}

\* A pruner of a scan with primary key bounds on a table whose range
\* columns are a strict prefix of the primary key.
SpecKeyBounds == InitKeyBounds /\ [][Next]_vars

NumRangeColumns == Len(table.partition_schema.range_schema)

\* The range prefix of a primary key.
RangePrefix(key) == SubSeq(key, 1, NumRangeColumns)

\* The range keys above a range key, and the least of them.
RangeKeysAbove(prefix) ==
  {key \in [1..NumRangeColumns -> Values] : KeyLess(prefix, key)}

Successor(prefix) ==
  CHOOSE key \in RangeKeysAbove(prefix) :
    \A other \in RangeKeysAbove(prefix) : KeyLeq(key, other)

\* The columns beyond the range prefix hold the minimum value.
MinSuffix(key) == \A idx \in (NumRangeColumns + 1)..NumKeyColumns : key[idx] = 0

\* The upper bound of the range Init has built.
DerivedRangeUpper == Back(Back(Cursor).partition_key_ranges).end

\* C22: on a table whose range columns are a strict prefix of the primary
\* key, the range upper bound Init derives from the exclusive upper key is
\* the range prefix when the columns beyond it are minimal, else the
\* successor of the prefix, else (no successor) unset; and the range prefix
\* of every primary key below the exclusive upper key is below the derived
\* upper bound unless that is unbounded.
RangeUpperFromPrimaryKey ==
  (pc = "ready" /\ fresh /\ NumRangeColumns \in 1..(NumKeyColumns - 1)
     /\ PrefixTable(table) /\ scan_spec.exclusive_upper_bound_key # NoKey
     /\ ~scan_spec.short_circuit /\ table.partition_schema.hash_schema = <<>>
     /\ table.partition_schema.ranges_with_hash_schemas = <<>>
     /\ scan_spec.lower_bound_partition_key = Empty
     /\ scan_spec.exclusive_upper_bound_partition_key = Empty) =>
    LET upper_key == scan_spec.exclusive_upper_bound_key
        prefix == RangePrefix(upper_key)
        derived == EncodeRangeKeysFromPrimaryKeyBounds(scan_spec,
                                                       NumRangeColumns).upper
    IN /\ NumRangesRemaining(Cursor) = 1
       /\ DerivedRangeUpper = derived
       /\ derived = (IF MinSuffix(upper_key) THEN prefix
                     ELSE IF RangeKeysAbove(prefix) = {} THEN Empty
                     ELSE Successor(prefix))
       /\ \A row \in Rows :
            KeyLess(row, upper_key) =>
              derived = Empty \/ KeyLess(RangePrefix(row), derived)

\* Init derived a range upper bound whose increment carried into the first
\* range column.
RangeUpperCarryWitness ==
  /\ pc = "ready" /\ fresh /\ NumRangeColumns = 2
  /\ scan_spec.exclusive_upper_bound_key = <<0, MaxVal, 1>>
  /\ DerivedRangeUpper = <<1, 0>>

\* Init used the prefix verbatim, and left the upper bound unset when the
\* prefix has no successor.
RangeUpperVerbatimWitness ==
  /\ pc = "ready" /\ fresh /\ NumRangeColumns = 2
  /\ scan_spec.exclusive_upper_bound_key = <<1, 1, 0>>
  /\ DerivedRangeUpper = <<1, 1>>

RangeUpperOverflowWitness ==
  /\ pc = "ready" /\ fresh /\ NumRangeColumns = 2
  /\ scan_spec.exclusive_upper_bound_key = <<MaxVal, MaxVal, 1>>
  /\ DerivedRangeUpper = Empty

\* ---------------------------------------------------------------- C23
\* The scanner loop has ended: HasMorePartitionKeyRanges() is false.
LoopEnded ==
  /\ pc = "ready"
  /\ phase = "idle"
  /\ ~HasMorePartitionKeyRanges(Cursor)

\* The tablets that ShouldPrune did not prune right after Init.
UnprunedAfterInit ==
  {partition \in TableTablets : ~ShouldPrune(InitialCursor, partition)}

\* C23: when the scanner loop over the tablets of a table that partition
\* the key space has ended, it has visited every tablet for which
\* ShouldPrune was false right after Init.
ScanLoopCompleteness ==
  LoopEnded => UnprunedAfterInit \subseteq visited

\* ---------------------------------------------------------------- C24
\* The scanner is about to call NextPartitionKey.
AboutToCallNext ==
  /\ pc = "ready"
  /\ phase = "idle"
  /\ HasMorePartitionKeyRanges(Cursor)

\* The vector that NextPartitionKey reads the back of is not empty.
NextResultDefined == Back(Cursor).partition_key_ranges # <<>>

\* C24: the scanner loop over the tablets of a table that partition the
\* key space, started after Init, eventually reaches a state where
\* HasMorePartitionKeyRanges() is false, and it calls NextPartitionKey only
\* in states where the result is defined.
ScanLoopTermination ==
  /\ (pc = "ready") ~> LoopEnded
  /\ [](AboutToCallNext => NextResultDefined)

\* ---------------------------------------------------------------- C25
\* The partitions that ShouldPrune prunes under the cursor c.
Pruned(c, partitions) ==
  {partition \in partitions : ShouldPrune(c, partition)}

\* The partitions whose partition_key_end is not empty and <= u.
EndingBy(u, partitions) ==
  IF u = Empty THEN {}
  ELSE {partition \in partitions :
          /\ partition.partition_key_end # Empty
          /\ KeyLeq(partition.partition_key_end, u)}

\* C25: always, in a state after Init and for every u, a partition that
\* ShouldPrune prunes is still pruned after RemovePartitionKeyRange(u), and
\* when u is not empty every partition whose partition_key_end is not empty
\* and <= u is pruned after the call.
PruningMonotone ==
  [](pc = "ready" =>
       LET partitions == TableTablets
           pruned == Pruned(Cursor, partitions)
       IN \A u \in Keys :
             LET after == RemoveRanges(Cursor, u)
             IN IF after = Cursor
                THEN EndingBy(u, partitions) \subseteq pruned
                ELSE \A partition \in pruned \cup EndingBy(u, partitions) :
                        ShouldPrune(after, partition))

\* An advance has pruned a partition that Init had kept and that ends at or
\* before the upper bound removed through, and another partition is kept.
PruningMonotoneWitness ==
  /\ pc = "ready" /\ ~fresh
  /\ \E u \in Keys \ {Empty} :
        /\ AllPast(Cursor, u)
        /\ \E partition \in TableTablets :
              /\ partition.partition_key_end # Empty
              /\ KeyLeq(partition.partition_key_end, u)
              /\ ~ShouldPrune(InitialCursor, partition)
              /\ ShouldPrune(Cursor, partition)
  /\ \E partition \in TableTablets : ~ShouldPrune(Cursor, partition)

\* ---------------------------------------------------------------- C26
\* The scans that are given by column predicates alone: in-list predicates
\* on the hash columns, in-list and range predicates on the others.
PredicateScanSpecs(tbl) ==
  {spec \in ScanSpecs(tbl) :
     /\ ~spec.short_circuit
     /\ \A col \in 1..NumKeyColumns :
           /\ spec.predicates[col].type # "Equality"
           /\ col \in HashColumns(tbl) => spec.predicates[col].type # "Range"
     /\ spec.lower_bound_key = NoKey
     /\ spec.exclusive_upper_bound_key = NoKey
     /\ spec.lower_bound_partition_key = Empty
     /\ spec.exclusive_upper_bound_partition_key = Empty}

InitAdvance ==
  /\ table \in Tables
  /\ scan_spec \in PredicateScanSpecs(table)
  /\ pc = "new"
  /\ range_bounds_to_partition_key_ranges_ = <<>>
  /\ fresh = FALSE
  /\ cleared = FALSE
  /\ phase = "idle"
  /\ next_key = NoKey
  /\ visited = {}

\* A pruner of a scan given by predicates alone, advanced by any calls of
\* RemovePartitionKeyRange.
SpecAdvance == InitAdvance /\ [][Next]_vars

\* Every range of the cursor c starts at or after u.
BelowEveryStart(c, u) ==
  \A i \in 1..Len(c) : \A k \in 1..Len(BucketRanges(c, i)) :
     KeyLeq(u, BucketRanges(c, i)[k].start)

\* The values a cursor takes: a vector of buckets, each with its range
\* bounds and its vector of partition key ranges.
CursorValues ==
  Seq([range_bounds : [lower : Seq(Int), upper : Seq(Int)],
       partition_key_ranges : Seq([start : Seq(Int), end : Seq(Int)])])

\* C26: from every reachable cursor and for any two non-empty keys u <= v,
\* RemovePartitionKeyRange(u) then RemovePartitionKeyRange(v), and the two
\* calls in the other order, both leave the cursor that a single
\* RemovePartitionKeyRange(v) leaves; and RemovePartitionKeyRange(u) with u
\* at or below every remaining start leaves the cursor unchanged.
AdvanceComposition ==
  pc = "ready" =>
    LET advanced == [w \in Keys \ {Empty} |-> RemoveRanges(Cursor, w)]
    IN /\ advanced \in [Keys \ {Empty} -> CursorValues]
       /\ \A u \in Keys \ {Empty} :
             /\ BelowEveryStart(Cursor, u) => advanced[u] = Cursor
             /\ \A v \in {w \in Keys \ {Empty} : KeyLeq(u, w)} :
                   /\ RemoveRanges(advanced[u], v) = advanced[v]
                   /\ RemoveRanges(advanced[v], u) = advanced[v]

\* A cursor that two successive advances change one after the other: the
\* first raises a start or removes a range, the second does so again.
AdvanceCompositionWitness ==
  /\ pc = "ready"
  /\ Len(Cursor) > 1
  /\ \E u \in Keys \ {Empty} : \E v \in Keys \ {Empty} :
        /\ KeyLess(u, v)
        /\ RemoveRanges(Cursor, u) # Cursor
        /\ RemoveRanges(Cursor, v) # RemoveRanges(Cursor, u)
        /\ NumRangesRemaining(RemoveRanges(Cursor, v)) > 0
        /\ NumRangesRemaining(RemoveRanges(Cursor, v))
             < NumRangesRemaining(RemoveRanges(Cursor, u))

====
